---- MODULE Spec2Model ----
(***************************************************************************)
(* The dial-value aggregation pipeline of the sqlite package:              *)
(* refreshDialValue, insertDialValue and publishDialEvent, run inside a    *)
(* caller's transaction over the tables dials, dial_memberships and        *)
(* dial_values.  Tables are sets of rows.  A transaction keeps its         *)
(* uncommitted writes in a private write set that is applied on commit and *)
(* discarded on rollback.                                                  *)
(***************************************************************************)
EXTENDS Integers, FiniteSets, Sequences, Bags, TLC

\* ---------------------------------------------------------------- bounds
MaxValue == 1
MaxTime == 2

\* One minute (time.Minute) measured in clock ticks.
TicksPerMinute == 2

\* The dial ids and user ids of the rows.
Dials == {1, 2}
Users == {1, 2}
Values == (0 - MaxValue)..MaxValue
TxIds == {1, 2}

\* ------------------------------------------------------------- variables
VARIABLES
    dials,              \* committed rows of table dials: [id, value, updated_at]
    dial_memberships,   \* committed rows: [dial_id, user_id, value]
    dial_values,        \* committed rows: [dial_id, timestamp, value]
    clock,              \* the wall clock read by BeginTx
    lock,               \* lock[d]: transaction holding the row lock of dial d, or 0
    tx,                 \* tx[t]: the transaction's position, write set and locals
    rc,                 \* rc[t]: what the transaction's recompute did so far
    called,             \* called[d]: refreshDialValue has run on dial d before, in a
                        \* transaction that has ended
    lookup,             \* a call of ErrorStatusCode / FromErrorStatusCode in progress
    http                \* the request handleDialSetMembershipValue is serving

vars == <<dials, dial_memberships, dial_values, clock, lock, tx, rc, called, lookup,
          http>>

\* The state of the sqlite package and the state of the http package.
storageVars == <<dials, dial_memberships, dial_values, clock, lock, tx, rc, called>>

httpVars == <<lookup, http>>

\* ------------------------------------------------------- pure operations
RECURSIVE SumValues(_)
SumValues(rows) ==
    IF rows = {} THEN 0
    ELSE LET r == CHOOSE x \in rows : TRUE
         IN  r.value + SumValues(rows \ {r})

\* Faulty variant of Round: the fraction is cut off (CAST without ROUND).
RoundTowardZero(sum, n) ==
    IF sum >= 0 THEN sum \div n ELSE 0 - ((0 - sum) \div n)

\* ROUND(x) of SQLite for x = sum / n: nearest integer, halves away from zero.
Round(sum, n) ==
    IF sum >= 0 THEN (2 * sum + n) \div (2 * n)
    ELSE 0 - ((2 * (0 - sum) + n) \div (2 * n))

\* Faulty variant of Average: without members the old value is kept.
AverageKeepOld(ms, id, oldValue) ==
    LET rows == {m \in ms : m.dial_id = id}
    IN  IF rows = {} THEN oldValue
        ELSE Round(SumValues(rows), Cardinality(rows))

\* SELECT CAST(ROUND(IFNULL(AVG(value), 0)) AS INTEGER)
\*   FROM dial_memberships WHERE dial_id = ?
Average(ms, id, oldValue) ==
    LET rows == {m \in ms : m.dial_id = id}
    IN  IF rows = {} THEN 0
        ELSE Round(SumValues(rows), Cardinality(rows))

\* Faulty variant of ValueUnchanged: the early exit is never taken.
NeverUnchanged(oldValue, newValue) == FALSE

\* if oldValue == newValue { return nil }
ValueUnchanged(oldValue, newValue) == oldValue = newValue

\* Faulty variant of Truncate: the timestamp keeps its precision.
NoTruncate(timestamp) == timestamp

\* timestamp.Truncate(1 * time.Minute)
Truncate(timestamp) == timestamp - (timestamp % TicksPerMinute)

\* Faulty variant of UpdateDial: updated_at keeps the time of an earlier update.
UpdateDialValueOnly(rows, id, value, now) ==
    {IF r.id = id THEN [r EXCEPT !.value = value] ELSE r : r \in rows}

\* UPDATE dials SET value = ?, updated_at = ? WHERE id = ?
UpdateDial(rows, id, value, now) ==
    {IF r.id = id THEN [r EXCEPT !.value = value, !.updated_at = now] ELSE r
        : r \in rows}

\* Faulty variant of UpsertDialValue: the sample is recorded for every dial.
UpsertEveryDial(rows, id, timestamp, value) ==
    {r \in rows : r.timestamp # timestamp}
        \cup {[dial_id |-> d, timestamp |-> timestamp, value |-> value] : d \in Dials}

\* INSERT INTO dial_values (dial_id, "timestamp", value) VALUES (?, ?, ?)
\*   ON CONFLICT (dial_id, "timestamp") DO UPDATE SET value = ?
UpsertDialValue(rows, id, timestamp, value) ==
    {r \in rows : ~(r.dial_id = id /\ r.timestamp = timestamp)}
        \cup {[dial_id |-> id, timestamp |-> timestamp, value |-> value]}

\* Faulty variant of MemberUserIDs: every user is taken for a member.
AllUserIDs(ms, id) == Users

\* SELECT user_id FROM dial_memberships WHERE dial_id = ?
MemberUserIDs(ms, id) == {m.user_id : m \in {x \in ms : x.dial_id = id}}

\* wtf.Event{Type: EventTypeDialValueChanged,
\*           Payload: &DialValueChangedPayload{ID: id, Value: newValue}}
DialValueChangedEvent(id, newValue) ==
    [type |-> "dial:value_changed", id |-> id, value |-> newValue]

\* Faulty variant of ContinueAfterPublish: an undelivered event ends the loop
\* with an error.
StopWhenUndelivered(delivered) == delivered

\* tx.db.EventService.PublishEvent(userID, event) returns nothing: the loop
\* goes on whether or not the event was delivered.
ContinueAfterPublish(delivered) == TRUE

\* Faulty variant of SkipWhenNoDial: the call goes on without a dial row.
NeverSkip(found) == FALSE

\* err == sql.ErrNoRows on the load: no dial, skip.
SkipWhenNoDial(found) == found = {}

\* Faulty variant of StepAfter: the history sample is recorded before the dial
\* row is updated.
HistoryBeforeUpdate(step) ==
    CASE step = "load" -> "aggregate"
      [] step = "aggregate" -> "insert"
      [] step = "insert" -> "update"
      [] step = "update" -> "query"
      [] step = "query" -> "iterate"

\* The order of the statements of refreshDialValue: the step that follows a
\* step that went through without an early return.
StepAfter(step) ==
    CASE step = "load" -> "aggregate"
      [] step = "aggregate" -> "update"
      [] step = "update" -> "insert"
      [] step = "insert" -> "query"
      [] step = "query" -> "iterate"

\* Faulty variant of ReturnsError: the error of insertDialValue is dropped.
SwallowHistoryError(step) == step # "insert"

\* What refreshDialValue returns when a step reports a storage error:
\* TRUE for an error (FormatError(err), fmt.Errorf), FALSE for nil.
ReturnsError(step) == TRUE

\* ------------------------------------------------- http: error status codes
\* Faulty variant of codes: two error codes share one status.
codesSharedStatus ==
    [ECONFLICT |-> 409, EINVALID |-> 400, ENOTFOUND |-> 404,
     ENOTIMPLEMENTED |-> 500, EUNAUTHORIZED |-> 401, EINTERNAL |-> 500]

\* var codes = map[string]int{...}: lookup of application error codes to HTTP
\* status codes.
codes ==
    [ECONFLICT |-> 409, EINVALID |-> 400, ENOTFOUND |-> 404,
     ENOTIMPLEMENTED |-> 501, EUNAUTHORIZED |-> 401, EINTERNAL |-> 500]

\* The application error codes handed to ErrorStatusCode: the six of the
\* lookup, the empty code and a code the lookup does not have.
ErrorCodes == DOMAIN codes \cup {"", "ETEAPOT"}

\* The HTTP statuses handed to FromErrorStatusCode: those of the lookup and
\* some it does not have.
StatusCodes == {codes[k] : k \in DOMAIN codes} \cup {200, 302, 403, 503}

\* func ErrorStatusCode(code string) int
ErrorStatusCode(code) ==
    IF code \in DOMAIN codes THEN codes[code] ELSE 500

\* ------------------------------------------- http: the set-membership route
\* The characters of the id in the request path.
Digits == <<"0", "1", "2", "3", "4", "5", "6", "7", "8", "9">>

IsDigit(c) == \E i \in 1..10 : Digits[i] = c

DigitValue(c) == (CHOOSE i \in 1..10 : Digits[i] = c) - 1

RECURSIVE ParseDigits(_)
ParseDigits(s) ==
    IF s = <<>> THEN 0
    ELSE ParseDigits(SubSeq(s, 1, Len(s) - 1)) * 10 + DigitValue(s[Len(s)])

\* strconv.Atoi(mux.Vars(r)["id"]): an optional sign and decimal digits.
Atoi(s) ==
    LET signed == s # <<>> /\ s[1] \in {"-", "+"}
        digits == IF signed THEN Tail(s) ELSE s
    IN  IF digits = <<>> \/ \E i \in 1..Len(digits) : ~IsDigit(digits[i])
        THEN [ok |-> FALSE, n |-> 0]
        ELSE [ok |-> TRUE,
              n |-> IF signed /\ s[1] = "-" THEN 0 - ParseDigits(digits)
                    ELSE ParseDigits(digits)]

\* The ids in the request path: of a dial, of no dial, and no integers.
PathIDs == {<<"1">>, <<"3">>, <<"-", "1">>, <<"x">>, <<"1", "x">>, <<"-">>}

\* A request body: text that is JSON or not; when it is a JSON object, whether
\* it has the member "value", and that member's JSON type and number.
Body(syntax, hasValue, type, n) ==
    [syntax |-> syntax, hasValue |-> hasValue, type |-> type, n |-> n]

Bodies ==
    {Body("bad", FALSE, "none", 0), Body("object", FALSE, "none", 0),
     Body("object", TRUE, "string", 0)}
        \cup {Body("object", TRUE, "number", v) : v \in Values}

\* json.NewDecoder(r.Body).Decode(&jsonRequest) into
\* jsonSetDialMembershipValueRequest{Value int `json:"value"`}: a member that is
\* absent leaves Value 0, a member of another type is an error.
DecodeJSON(body) ==
    IF body.syntax # "object" THEN [ok |-> FALSE, Value |-> 0]
    ELSE IF ~body.hasValue THEN [ok |-> TRUE, Value |-> 0]
    ELSE IF body.type # "number" THEN [ok |-> FALSE, Value |-> 0]
    ELSE [ok |-> TRUE, Value |-> body.n]

AcceptHeaders == {"application/json", "text/html"}

\* Faulty variant of InvalidError: the handler reports an internal error.
InternalError(message) == [code |-> "EINTERNAL", message |-> message]

\* wtf.Errorf(wtf.EINVALID, message)
InvalidError(message) == [code |-> "EINVALID", message |-> message]

\* The error the service call of transaction t returned to the handler.
ServiceErrorOf(t) ==
    IF rc[t].failAt = "service"
    THEN [code |-> "ENOTFOUND", message |-> "Dial not found."]
    ELSE [code |-> "EINTERNAL", message |-> "Internal error."]

\* func Error(w, r, err): the status of the error's code and the message, as
\* JSON or as the HTML error page; internal errors are logged and reported.
Error(err, accept) ==
    [status |-> ErrorStatusCode(err.code), code |-> err.code,
     message |-> err.message,
     format |-> IF accept = "application/json" THEN "json" ELSE "html",
     logged |-> err.code = "EINTERNAL"]

\* w.Write([]byte(`{}`)), with the status of a first write.
SuccessResponse ==
    [status |-> 200, code |-> "", message |-> "{}", format |-> "json", logged |-> FALSE]

NoRequest ==
    [pc |-> "idle", body |-> Body("bad", FALSE, "none", 0), pathID |-> <<>>,
     user |-> 0, accept |-> "", id |-> 0, Value |-> 0, calls |-> 0, written |-> <<>>]

NoLookup == [pc |-> "idle", code |-> "none", status |-> 0, keys |-> {}, result |-> "none"]

\* ------------------------------------------------------ transaction views
Active == {"open", "load", "aggregate", "update", "insert", "query", "iterate", "returned"}

NoEvents == EmptyBag

IdleTx ==
    [pc |-> "idle", now |-> 0, id |-> 0, dPut |-> {}, dDel |-> {}, mPut |-> {},
     mDel |-> {}, vPut |-> {}, oldValue |-> 0, newValue |-> 0, rows |-> {},
     err |-> FALSE]

NoRecompute ==
    [op |-> "none", outcome |-> "none", failAt |-> "none", sent |-> NoEvents,
     preDial |-> {}, preHist |-> {}, second |-> FALSE, overwrote |-> FALSE,
     conc |-> FALSE]

\* Rows a transaction reads: the committed rows, shadowed by its own writes.
ViewDials(t) ==
    {r \in dials : r.id \notin tx[t].dDel /\ r.id \notin {p.id : p \in tx[t].dPut}}
        \cup tx[t].dPut

\* Faulty variant of ViewMemberships: a storage that also shows the rows other
\* transactions have written and not committed.
ViewUncommittedMemberships(t) ==
    {m \in dial_memberships : <<m.dial_id, m.user_id>> \notin tx[t].mDel}
        \cup UNION {tx[o].mPut : o \in {x \in TxIds : tx[x].pc \in Active \/ x = t}}

ViewMemberships(t) ==
    {m \in dial_memberships :
        /\ <<m.dial_id, m.user_id>> \notin tx[t].mDel
        /\ <<m.dial_id, m.user_id>> \notin {<<p.dial_id, p.user_id>> : p \in tx[t].mPut}}
        \cup tx[t].mPut

ViewValues(t) ==
    {r \in dial_values :
        <<r.dial_id, r.timestamp>> \notin {<<p.dial_id, p.timestamp>> : p \in tx[t].vPut}}
        \cup tx[t].vPut

\* Faulty variant of CanLock: a storage without the row lock.
NoRowLock(t, d) == TRUE

\* The row lock of a dial is free for t, or already held by t.
CanLock(t, d) == lock[d] \in {0, t}

Release(t) == [d \in Dials |-> IF lock[d] = t THEN 0 ELSE lock[d]]

\* refreshDialValue returns: err distinguishes an error from nil.  The record of
\* the state before the call is kept for the calls in which a step failed.
Return(t, err, outcome, failAt) ==
    LET failed == IF rc[t].failAt = "none" THEN failAt ELSE rc[t].failAt
    IN  /\ tx' = [tx EXCEPT ![t].pc = "returned", ![t].err = err, ![t].rows = {}]
        /\ rc' = [rc EXCEPT ![t].outcome = outcome,
                            ![t].failAt = failed,
                            ![t].preDial = IF failed = "none" THEN {} ELSE @,
                            ![t].preHist = IF failed = "none" THEN {} ELSE @]

\* ----------------------------------------------------------------- Init
Init ==
    /\ dials = {[id |-> d, value |-> 0, updated_at |-> 0] : d \in Dials}
    /\ dial_memberships = {}
    /\ dial_values = {}
    /\ clock = 0
    /\ lock = [d \in Dials |-> 0]
    /\ tx = [t \in TxIds |-> IdleTx]
    /\ rc = [t \in TxIds |-> NoRecompute]
    /\ called = [d \in Dials |-> FALSE]
    /\ lookup = NoLookup
    /\ http = NoRequest

\* ------------------------------------------------- the caller's transaction
Tick ==
    /\ clock < MaxTime
    /\ clock' = clock + 1
    /\ UNCHANGED <<dials, dial_memberships, dial_values, lock, tx, rc, called>>
    /\ UNCHANGED httpVars

\* db.BeginTx: tx.now is read from the clock once.
BeginTx(t) ==
    /\ tx[t].pc \notin Active
    /\ tx' = [tx EXCEPT ![t] = [IdleTx EXCEPT !.pc = "open", !.now = clock]]
    /\ LET others == {o \in TxIds \ {t} : tx[o].pc \in Active}
       IN  rc' = [o \in TxIds |->
                    IF o = t THEN [NoRecompute EXCEPT !.conc = (others # {})]
                    ELSE IF o \in others THEN [rc[o] EXCEPT !.conc = TRUE]
                    ELSE rc[o]]
    /\ UNCHANGED <<dials, dial_memberships, dial_values, clock, lock, called>>

\* The recompute of dial d starts: refreshDialValue(ctx, tx, d).
StartRefresh(t, d, op, mPut, mDel) ==
    /\ tx' = [tx EXCEPT ![t].pc = "load", ![t].id = d, ![t].mPut = mPut,
                        ![t].mDel = mDel]
    /\ rc' = [rc EXCEPT ![t].op = op,
                        ![t].preDial = {r \in dials : r.id = d},
                        ![t].preHist = {r \in dial_values : r.dial_id = d},
                        ![t].second = (called[d] /\ mPut = {} /\ mDel = {})]

\* The service call fails before the recompute is reached.
ServiceError(t, d, op) ==
    /\ tx' = [tx EXCEPT ![t].pc = "returned", ![t].id = d, ![t].err = TRUE]
    /\ rc' = [rc EXCEPT ![t].op = op, ![t].failAt = "service"]

\* setMembershipValue(dialID, userID, value): upsert the membership, then recompute.
SetDialMembershipValue(t, d, u, v) ==
    /\ tx[t].pc = "open"
    /\ IF \E r \in ViewDials(t) : r.id = d
       THEN LET row == [dial_id |-> d, user_id |-> u, value |-> v]
            IN  IF row \in ViewMemberships(t)
                THEN StartRefresh(t, d, "set", {}, {})
                ELSE StartRefresh(t, d, "set", {row}, {})
       ELSE ServiceError(t, d, "set")
    /\ UNCHANGED <<dials, dial_memberships, dial_values, clock, lock, called>>

\* deleteMembership(dialID, userID): remove the membership, then recompute.
DeleteDialMembership(t, d, u) ==
    /\ tx[t].pc = "open"
    /\ IF \E m \in ViewMemberships(t) : m.dial_id = d /\ m.user_id = u
       THEN StartRefresh(t, d, "delete", {}, {<<d, u>>})
       ELSE ServiceError(t, d, "delete")
    /\ UNCHANGED <<dials, dial_memberships, dial_values, clock, lock, called>>

\* recomputeDialValue(dialID): the recompute alone.
RecomputeDialValue(t, d) ==
    /\ tx[t].pc = "open"
    /\ StartRefresh(t, d, "recompute", {}, {})
    /\ UNCHANGED <<dials, dial_memberships, dial_values, clock, lock, called>>

\* DeleteDial: deletes the dial and all its members.
DeleteDial(t, d) ==
    /\ tx[t].pc = "open"
    /\ IF \E r \in ViewDials(t) : r.id = d
       THEN /\ CanLock(t, d)
            /\ lock' = [lock EXCEPT ![d] = t]
            /\ tx' = [tx EXCEPT ![t].pc = "returned", ![t].id = d, ![t].dDel = {d},
                        ![t].mDel = {<<m.dial_id, m.user_id>> :
                                        m \in {x \in ViewMemberships(t) : x.dial_id = d}}]
            /\ rc' = [rc EXCEPT ![t].op = "deleteDial"]
       ELSE /\ ServiceError(t, d, "deleteDial")
            /\ lock' = lock
    /\ UNCHANGED <<dials, dial_memberships, dial_values, clock, called>>

\* ------------------------------------------------------- refreshDialValue
\* SELECT value FROM dials WHERE id = ?
RefreshLoad(t, faulty) ==
    /\ tx[t].pc = "load"
    /\ LET id == tx[t].id
           found == {r \in ViewDials(t) : r.id = id}
       IN  \/ /\ faulty
              /\ Return(t, ReturnsError("load"), "error", "load")
              /\ lock' = lock
           \/ /\ SkipWhenNoDial(found)
              /\ Return(t, FALSE, "notfound", "none")
              /\ lock' = lock
           \/ /\ ~SkipWhenNoDial(found)
              /\ CanLock(t, id)
              /\ lock' = [lock EXCEPT ![id] = t]
              /\ tx' = [tx EXCEPT ![t].pc = StepAfter("load"),
                                  ![t].oldValue = IF found = {} THEN 0
                                                  ELSE (CHOOSE r \in found : TRUE).value]
              /\ rc' = rc
    /\ UNCHANGED <<dials, dial_memberships, dial_values, clock, called>>

\* Compute the average from the memberships; exit if the value will not change.
RefreshAggregate(t, faulty) ==
    /\ tx[t].pc = "aggregate"
    /\ LET id == tx[t].id
           newValue == Average(ViewMemberships(t), id, tx[t].oldValue)
       IN  \/ /\ faulty
              /\ Return(t, ReturnsError("aggregate"), "error", "aggregate")
           \/ /\ ValueUnchanged(tx[t].oldValue, newValue)
              /\ tx' = [tx EXCEPT ![t].pc = "returned", ![t].newValue = newValue]
              /\ rc' = [rc EXCEPT ![t].outcome = "nochange", ![t].preDial = {},
                                  ![t].preHist = {}]
           \/ /\ ~ValueUnchanged(tx[t].oldValue, newValue)
              /\ tx' = [tx EXCEPT ![t].pc = StepAfter("aggregate"),
                                  ![t].newValue = newValue]
              /\ rc' = rc
    /\ UNCHANGED <<dials, dial_memberships, dial_values, clock, lock, called>>

\* Update value on dial.
RefreshUpdate(t, faulty) ==
    /\ tx[t].pc = "update"
    /\ LET id == tx[t].id
           updated == UpdateDial(ViewDials(t), id, tx[t].newValue, tx[t].now)
       IN  \/ /\ faulty
              /\ Return(t, ReturnsError("update"), "error", "update")
           \/ /\ tx' = [tx EXCEPT ![t].pc = StepAfter("update"),
                                  ![t].dPut = updated \ dials]
              /\ rc' = rc
    /\ UNCHANGED <<dials, dial_memberships, dial_values, clock, lock, called>>

\* insertDialValue(ctx, tx, id, newValue, tx.now)
InsertDialValue(t, faulty) ==
    /\ tx[t].pc = "insert"
    /\ LET id == tx[t].id
           timestamp == Truncate(tx[t].now)
           before == ViewValues(t)
           after == UpsertDialValue(before, id, timestamp, tx[t].newValue)
       IN  \/ /\ faulty
              /\ IF ReturnsError("insert")
                 THEN Return(t, TRUE, "error", "insert")
                 ELSE /\ tx' = [tx EXCEPT ![t].pc = StepAfter("insert")]
                      /\ rc' = [rc EXCEPT ![t].failAt = "insert"]
           \/ /\ tx' = [tx EXCEPT ![t].pc = StepAfter("insert"),
                                  ![t].vPut = (after \ dial_values) \cup
                                        {r \in after : /\ r.dial_id = id
                                                       /\ r.timestamp = timestamp}]
              /\ rc' = [rc EXCEPT ![t].overwrote =
                            \E r \in before : /\ r.dial_id = id
                                              /\ r.timestamp = timestamp
                                              /\ r.value # tx[t].newValue]
    /\ UNCHANGED <<dials, dial_memberships, dial_values, clock, lock, called>>

\* ------------------------------------------------------- publishDialEvent
\* Find all users who are members of the dial.
PublishQuery(t, faulty) ==
    /\ tx[t].pc = "query"
    /\ \/ /\ faulty
          /\ Return(t, ReturnsError("query"), "error", "query")
       \/ /\ tx' = [tx EXCEPT ![t].pc = StepAfter("query"),
                              ![t].rows = MemberUserIDs(ViewMemberships(t), tx[t].id)]
          /\ rc' = rc
    /\ UNCHANGED <<dials, dial_memberships, dial_values, clock, lock, called>>

\* Iterate over users and publish event.
PublishNext(t, faulty) ==
    /\ tx[t].pc = "iterate"
    /\ \/ \E userID \in tx[t].rows, delivered \in {TRUE, ~faulty} :
            LET event == DialValueChangedEvent(tx[t].id, tx[t].newValue)
                sent == rc[t].sent (+) SetToBag({[user_id |-> userID, event |-> event,
                                                  delivered |-> delivered]})
            IN  IF ContinueAfterPublish(delivered)
                THEN /\ tx' = [tx EXCEPT ![t].rows = @ \ {userID}]
                     /\ rc' = [rc EXCEPT ![t].sent = sent]
                ELSE /\ tx' = [tx EXCEPT ![t].pc = "returned", ![t].err = TRUE,
                                         ![t].rows = {}]
                     /\ rc' = [rc EXCEPT ![t].sent = sent, ![t].outcome = "error",
                                         ![t].failAt = "publish"]
       \/ /\ faulty
          /\ tx[t].rows # {}                               \* rows.Scan fails
          /\ Return(t, ReturnsError("scan"), "error", "scan")
       \/ /\ faulty                                       \* rows.Err() # nil
          /\ Return(t, ReturnsError("rows"), "error", "rows")
       \/ /\ tx[t].rows = {}
          /\ Return(t, FALSE, "changed", "none")
    /\ UNCHANGED <<dials, dial_memberships, dial_values, clock, lock, called>>

\* ---------------------------------------------------------- end of the call
\* The service call of t ran refreshDialValue.
Refreshed(t) == rc[t].op \in {"set", "delete", "recompute"} /\ rc[t].failAt # "service"

\* tx.Commit(): the write set becomes the committed state.
Commit(t) ==
    /\ tx[t].pc = "returned"
    /\ ~tx[t].err
    /\ dials' = ViewDials(t)
    /\ dial_memberships' = ViewMemberships(t)
    /\ dial_values' = ViewValues(t)
    /\ lock' = Release(t)
    /\ tx' = [tx EXCEPT ![t] = [IdleTx EXCEPT !.pc = "committed", !.now = tx[t].now,
                                    !.id = tx[t].id,
                                    !.newValue = tx[t].newValue]]
    /\ rc' = [rc EXCEPT ![t].preDial = {}, ![t].preHist = {}, ![t].second = FALSE]
    /\ called' = [d \in Dials |-> called[d] \/ (d = tx[t].id /\ Refreshed(t))]
    /\ clock' = clock

\* tx.Rollback(): after an error, or when the commit itself fails.
Rollback(t, faulty) ==
    /\ tx[t].pc = "returned"
    /\ tx[t].err \/ faulty
    /\ lock' = Release(t)
    /\ tx' = [tx EXCEPT ![t] = [IdleTx EXCEPT !.pc = "rolledback", !.now = tx[t].now,
                                    !.id = tx[t].id,
                                    !.newValue = tx[t].newValue, !.err = tx[t].err]]
    /\ rc' = [rc EXCEPT ![t].failAt = IF tx[t].err THEN @ ELSE "commit", ![t].second = FALSE]
    /\ called' = [d \in Dials |-> called[d] \/ (d = tx[t].id /\ Refreshed(t))]
    /\ UNCHANGED <<dials, dial_memberships, dial_values, clock>>

\* -------------------------------------------- http: the calls of the lookup
\* ErrorStatusCode(code) is called and returns the status.
CallErrorStatusCode(code) ==
    /\ lookup.pc = "idle"
    /\ lookup' = [NoLookup EXCEPT !.pc = "status", !.code = code,
                                  !.status = ErrorStatusCode(code)]
    /\ UNCHANGED <<storageVars, http>>

\* FromErrorStatusCode(status) is called, on a status that ErrorStatusCode
\* returned or on one given by the caller: for k, v := range codes begins.
CallFromErrorStatusCode ==
    /\ \/ /\ lookup.pc = "status"
          /\ lookup' = [lookup EXCEPT !.pc = "range", !.keys = DOMAIN codes]
       \/ /\ lookup.pc = "idle"
          /\ \E status \in StatusCodes :
                lookup' = [NoLookup EXCEPT !.pc = "range", !.status = status,
                                          !.keys = DOMAIN codes]
    /\ UNCHANGED <<storageVars, http>>

\* One iteration of the range over the map, which visits the keys in an order
\* that is not defined: any key not yet visited may come next.
RangeNext ==
    /\ lookup.pc = "range"
    /\ \/ \E k \in lookup.keys :
            IF codes[k] = lookup.status
            THEN lookup' = [lookup EXCEPT !.pc = "done", !.result = k, !.keys = {}]
            ELSE lookup' = [lookup EXCEPT !.keys = @ \ {k}]
       \/ /\ lookup.keys = {}
          /\ lookup' = [lookup EXCEPT !.pc = "done", !.result = "EINTERNAL"]
    /\ UNCHANGED <<storageVars, http>>

\* The caller takes the result.
LookupReturn ==
    /\ lookup.pc = "done"
    /\ lookup' = NoLookup
    /\ UNCHANGED <<storageVars, http>>

\* ------------------------------------ http: handleDialSetMembershipValue
\* A PUT /dials/{id}/membership request of a user arrives.
Request(body, pathID, user, accept) ==
    /\ http.pc = "idle"
    /\ http' = [NoRequest EXCEPT !.pc = "decode", !.body = body, !.pathID = pathID,
                                 !.user = user, !.accept = accept]
    /\ UNCHANGED <<storageVars, lookup>>

\* Decode the body; on an error respond and return.
HandleDecode ==
    /\ http.pc = "decode"
    /\ LET decoded == DecodeJSON(http.body)
       IN  IF ~decoded.ok
           THEN http' = [http EXCEPT !.pc = "responded",
                            !.written = Append(@, Error(InvalidError("Invalid JSON body"),
                                                        http.accept))]
           ELSE http' = [http EXCEPT !.pc = "atoi", !.Value = decoded.Value]
    /\ UNCHANGED <<storageVars, lookup>>

\* Parse dial ID from path; on an error respond and return.
HandleAtoi ==
    /\ http.pc = "atoi"
    /\ LET parsed == Atoi(http.pathID)
       IN  IF ~parsed.ok
           THEN http' = [http EXCEPT !.pc = "responded",
                            !.written = Append(@, Error(InvalidError("Invalid ID format"),
                                                        http.accept))]
           ELSE http' = [http EXCEPT !.pc = "call", !.id = parsed.n]
    /\ UNCHANGED <<storageVars, lookup>>

\* s.DialService.SetDialMembershipValue(r.Context(), id, jsonRequest.Value) is
\* called: the service begins its transaction.
HandleCall ==
    /\ http.pc = "call"
    /\ BeginTx(1)
    /\ http' = [http EXCEPT !.pc = "service", !.calls = @ + 1]
    /\ lookup' = lookup

\* The service call runs, for the user of the request's context.
ServiceStep ==
    /\ http.pc = "service"
    /\ \/ SetDialMembershipValue(1, http.id, http.user, http.Value)
       \/ RefreshLoad(1, TRUE)
       \/ RefreshAggregate(1, TRUE)
       \/ RefreshUpdate(1, TRUE)
       \/ InsertDialValue(1, TRUE)
       \/ PublishQuery(1, TRUE)
       \/ PublishNext(1, TRUE)
       \/ Commit(1)
       \/ Rollback(1, TRUE)
    /\ UNCHANGED httpVars

\* The service call returned: on an error respond with it and return,
\* otherwise write the response that indicates success.
HandleResult ==
    /\ http.pc = "service"
    /\ tx[1].pc \in {"committed", "rolledback"}
    /\ IF tx[1].pc = "rolledback"
       THEN http' = [http EXCEPT !.pc = "responded",
                        !.written = Append(@, Error(ServiceErrorOf(1), http.accept))]
       ELSE http' = [http EXCEPT !.pc = "responded",
                        !.written = Append(@, SuccessResponse)]
    /\ UNCHANGED <<storageVars, lookup>>

\* The handler has returned; the server is ready for the next request.
HandlerReturn ==
    /\ http.pc = "responded"
    /\ http' = NoRequest
    /\ UNCHANGED <<storageVars, lookup>>

\* ------------------------------------------------------------ specifications
\* A step of the service call of transaction t, addressed to a dial of ds.
Step(t, faulty, ds) ==
    /\ \/ BeginTx(t)
       \/ \E d \in ds, u \in Users, v \in Values : SetDialMembershipValue(t, d, u, v)
       \/ \E d \in ds, u \in Users : DeleteDialMembership(t, d, u)
       \/ \E d \in ds : RecomputeDialValue(t, d)
       \/ \E d \in ds : DeleteDial(t, d)
       \/ RefreshLoad(t, faulty)
       \/ RefreshAggregate(t, faulty)
       \/ RefreshUpdate(t, faulty)
       \/ InsertDialValue(t, faulty)
       \/ PublishQuery(t, faulty)
       \/ PublishNext(t, faulty)
       \/ Commit(t)
       \/ Rollback(t, faulty)
    /\ UNCHANGED httpVars

\* One service call at a time, on dial 1; storage calls, deliveries and the
\* commit may fail.
Next == Tick \/ Step(1, TRUE, {1})

Spec == Init /\ [][Next]_vars

\* Two service calls on dial 1 running concurrently, each in its own
\* transaction, on a storage that does not fail.
NextConc == \E t \in TxIds : Step(t, FALSE, {1})

\* One service call at a time, on any dial, on a storage that does not fail.
NextDials == Tick \/ Step(1, FALSE, Dials)

SpecDials == Init /\ [][NextDials]_vars

\* One service call at a time, on any dial, within one minute; storage calls,
\* deliveries and the commit may fail.
NextFrame == Step(1, TRUE, Dials)

SpecFrame == Init /\ [][NextFrame]_vars

SpecConc == Init /\ [][NextConc]_vars

\* Calls of ErrorStatusCode and FromErrorStatusCode on any code and status.
NextCodes ==
    \/ \E code \in ErrorCodes : CallErrorStatusCode(code)
    \/ CallFromErrorStatusCode
    \/ RangeNext
    \/ LookupReturn

SpecCodes == Init /\ [][NextCodes]_vars

\* Requests to the set-membership route, served one at a time; storage calls,
\* deliveries and the commit of the service may fail.
NextHttp ==
    \/ \E body \in Bodies, pathID \in PathIDs, user \in Users, accept \in AcceptHeaders :
            Request(body, pathID, user, accept)
    \/ HandleDecode
    \/ HandleAtoi
    \/ HandleCall
    \/ ServiceStep
    \/ HandleResult
    \/ HandlerReturn

SpecHttp == Init /\ [][NextHttp]_vars

\* ------------------------------------------------------------------ claims
Abs(x) == IF x < 0 THEN 0 - x ELSE x

\* v is the arithmetic mean of the values of rows, rounded to the nearest
\* integer, a tie going away from zero; 0 when there are no rows.
IsRoundedMean(v, rows) ==
    LET n == Cardinality(rows)
        sum == SumValues(rows)
    IN  IF n = 0 THEN v = 0
        ELSE /\ 2 * Abs(n * v - sum) <= n
             /\ (2 * Abs(n * v - sum) = n => n * Abs(v) > Abs(sum))

MembersOf(ms, d) == {m \in ms : m.dial_id = d}

\* The number of PublishEvent calls in sent that are addressed to user u.
RECURSIVE CountCalls(_, _)
CountCalls(sent, es) ==
    IF es = {} THEN 0
    ELSE LET e == CHOOSE x \in es : TRUE
         IN  CopiesIn(e, sent) + CountCalls(sent, es \ {e})

Copies(sent, u) == CountCalls(sent, {e \in BagToSet(sent) : e.user_id = u})

NoWrites(t) == tx[t].dPut = {} /\ tx[t].vPut = {} /\ rc[t].sent = NoEvents

\* C1: when refreshDialValue runs on a dial on which it has run before, with no
\* membership change since the earlier call, the later call writes no dial row
\* and no history sample and publishes no event.
C1_Idempotent ==
    \A t \in TxIds : (tx[t].pc \in Active /\ rc[t].second) => NoWrites(t)

C1_Witness ==
    \E t \in TxIds :
        /\ tx[t].pc = "returned"
        /\ rc[t].second
        /\ rc[t].outcome = "nochange"
        /\ tx[t].oldValue # 0
        /\ MembersOf(ViewMemberships(t), tx[t].id) # {}

\* C2: after refreshDialValue returned nil on an existing dial, the dial's value
\* is the mean of the values of its memberships rounded to the nearest integer,
\* ties away from zero, and 0 when it has no memberships.
C2_AggregateCorrect ==
    \A t \in TxIds :
        (/\ tx[t].pc = "returned"
         /\ ~tx[t].err
         /\ rc[t].outcome \in {"nochange", "changed"})
        => \E r \in ViewDials(t) :
              /\ r.id = tx[t].id
              /\ IsRoundedMean(r.value, MembersOf(ViewMemberships(t), tx[t].id))

\* A tie below zero: two members whose values add up to -1 give -1.
C2_Witness ==
    \E t \in TxIds :
        /\ tx[t].pc = "returned"
        /\ ~tx[t].err
        /\ rc[t].outcome = "changed"
        /\ Cardinality(MembersOf(ViewMemberships(t), tx[t].id)) = 2
        /\ SumValues(MembersOf(ViewMemberships(t), tx[t].id)) = 0 - 1
        /\ \E r \in ViewDials(t) : r.id = tx[t].id /\ r.value = 0 - 1

\* C3: a refreshDialValue that returned nil after changing the value has called
\* PublishEvent exactly once for each member of the dial and for nobody else,
\* each call carrying the value-changed event with the dial id and the new
\* value; one that found no dial or an unchanged value has called it zero times.
C3_FanOut ==
    \A t \in TxIds :
        /\ (tx[t].pc = "returned" /\ ~tx[t].err /\ rc[t].outcome = "changed")
            => /\ \A u \in Users :
                    Copies(rc[t].sent, u) =
                        IF \E m \in ViewMemberships(t) :
                                m.dial_id = tx[t].id /\ m.user_id = u
                        THEN 1 ELSE 0
               /\ \A e \in BagToSet(rc[t].sent) :
                    /\ e.event.type = "dial:value_changed"
                    /\ e.event.id = tx[t].id
                    /\ \E r \in ViewDials(t) : r.id = tx[t].id /\ r.value = e.event.value
        /\ (tx[t].pc = "returned" /\ rc[t].outcome \in {"notfound", "nochange"})
            => rc[t].sent = NoEvents

C3_Witness ==
    \E t \in TxIds :
        /\ tx[t].pc = "returned"
        /\ ~tx[t].err
        /\ rc[t].outcome = "changed"
        /\ \E u \in Users : Copies(rc[t].sent, u) = 1
        /\ \E u \in Users : \A m \in ViewMemberships(t) : m.user_id # u

\* C4: dial_values holds at most one sample per dial and one-minute bucket, and
\* after a committed value-changing recompute the sample of the recompute's
\* bucket holds the recompute's value, also when the bucket already had one.
C4_HistoryUpsert ==
    /\ \A r1, r2 \in dial_values :
          (/\ r1.dial_id = r2.dial_id
           /\ r1.timestamp \div TicksPerMinute = r2.timestamp \div TicksPerMinute)
          => r1 = r2
    /\ \A t \in TxIds :
          (tx[t].pc = "committed" /\ rc[t].outcome = "changed")
          => \E r \in dial_values :
                /\ r.dial_id = tx[t].id
                /\ r.timestamp \div TicksPerMinute = tx[t].now \div TicksPerMinute
                /\ r.value = tx[t].newValue

C4_Witness ==
    \E t \in TxIds :
        /\ tx[t].pc = "committed"
        /\ rc[t].outcome = "changed"
        /\ rc[t].overwrote

\* C5: when two service calls that ran concurrently, each in its own
\* transaction, have both recomputed the same dial and committed, the dial's
\* committed value is the rounded mean of its committed memberships.
C5_RaceSafe ==
    \A t1, t2 \in TxIds :
        (/\ t1 # t2
         /\ tx[t1].pc = "committed" /\ tx[t2].pc = "committed"
         /\ rc[t1].conc /\ rc[t2].conc
         /\ tx[t1].id = tx[t2].id
         /\ Refreshed(t1) /\ Refreshed(t2))
        => \A r \in dials :
              r.id = tx[t1].id => IsRoundedMean(r.value, MembersOf(dial_memberships, r.id))

\* Both concurrent calls changed the value, to different values.
C5_Witness ==
    \E t1, t2 \in TxIds :
        /\ t1 # t2
        /\ tx[t1].pc = "committed" /\ tx[t2].pc = "committed"
        /\ rc[t1].conc /\ rc[t2].conc
        /\ tx[t1].id = tx[t2].id
        /\ rc[t1].outcome = "changed" /\ rc[t2].outcome = "changed"
        /\ tx[t1].newValue # tx[t2].newValue
        /\ \E r \in dials : r.id = tx[t1].id

\* C6: in every committed state reached by setMembershipValue and
\* deleteMembership calls, each dial's value is the rounded mean of the values
\* of its memberships, 0 if it has none.
C6_ValueInvariant ==
    \A r \in dials : IsRoundedMean(r.value, MembersOf(dial_memberships, r.id))

\* A deleteMembership has committed a changed value while a member remains.
C6_Witness ==
    \E t \in TxIds :
        /\ tx[t].pc = "committed"
        /\ rc[t].op = "delete"
        /\ rc[t].outcome = "changed"
        /\ MembersOf(dial_memberships, tx[t].id) # {}

\* C7: refreshDialValue on an id without a dial row returns nil, writes no dial
\* row and no history sample and publishes no event, whatever membership rows
\* of that id there are.
C7_NotFound ==
    \A t \in TxIds :
        (/\ tx[t].pc = "returned"
         /\ Refreshed(t)
         /\ rc[t].failAt # "load"
         /\ \A r \in ViewDials(t) : r.id # tx[t].id)
        => ~tx[t].err /\ NoWrites(t)

\* The dial was deleted while the caller's membership row of it is in place.
C7_Witness ==
    \E t \in TxIds :
        /\ tx[t].pc = "returned"
        /\ rc[t].outcome = "notfound"
        /\ ~tx[t].err
        /\ MembersOf(ViewMemberships(t), tx[t].id) # {}

StorageSteps == {"load", "aggregate", "update", "insert"}

NotifySteps == {"query", "scan", "rows"}

\* The caller's transaction ended and left the dial row and the history of the
\* dial as they were when the recompute began.
RolledBackTo(t) ==
    /\ tx[t].pc = "rolledback"
    /\ {r \in dials : r.id = tx[t].id} = rc[t].preDial
    /\ {r \in dial_values : r.dial_id = tx[t].id} = rc[t].preHist

\* C8: when a storage call of the load, aggregate, update or history step fails,
\* refreshDialValue returns an error, no event is published and, once the
\* caller's transaction has ended, the dial's value and history are what they
\* were before the recompute.
C8_StorageFailure ==
    \A t \in TxIds :
        rc[t].failAt \in StorageSteps
        => /\ rc[t].sent = NoEvents
           /\ \/ tx[t].pc = "returned" /\ tx[t].err
              \/ RolledBackTo(t)

\* The history step failed after the dial row had been updated.
C8_Witness ==
    \E t \in TxIds :
        /\ rc[t].failAt = "insert"
        /\ RolledBackTo(t)
        /\ \E r \in dials : r.id = tx[t].id /\ r.value # tx[t].newValue

Undelivered(t) == \E e \in BagToSet(rc[t].sent) : ~e.delivered

\* C9 as stated: a failure in the notification step does not make
\* refreshDialValue return an error.
C9_Original ==
    \A t \in TxIds : rc[t].failAt \in NotifySteps => ~tx[t].err

\* C9 amended: an event that PublishEvent fails to deliver does not make
\* refreshDialValue return an error, and the dial value and history sample of
\* the recompute are committed with it; a storage failure while
\* publishDialEvent reads the members makes refreshDialValue return an error,
\* and the caller's rollback undoes the update and the sample.
C9_BestEffortDelivery ==
    \A t \in TxIds :
        /\ (Undelivered(t) /\ rc[t].failAt \notin NotifySteps \cup {"commit"})
            => /\ ~tx[t].err
               /\ tx[t].pc # "rolledback"
               /\ tx[t].pc = "committed"
                    => /\ \E r \in dials :
                            r.id = tx[t].id /\ r.value = tx[t].newValue
                       /\ \E r \in dial_values :
                            /\ r.dial_id = tx[t].id
                            /\ r.timestamp \div TicksPerMinute
                                    = tx[t].now \div TicksPerMinute
                            /\ r.value = tx[t].newValue
        /\ rc[t].failAt \in NotifySteps
            => \/ tx[t].pc = "returned" /\ tx[t].err
               \/ RolledBackTo(t)

C9_Witness ==
    \E t \in TxIds :
        /\ tx[t].pc = "committed"
        /\ rc[t].outcome = "changed"
        /\ Undelivered(t)
        /\ \E r \in dials : r.id = tx[t].id /\ r.value = tx[t].newValue

\* C10: the side effects of a recompute are all or nothing: no value-changed
\* event is published to a member by a recompute whose transaction does not
\* commit.
C10_AllOrNothing ==
    \A t \in TxIds :
        tx[t].pc = "rolledback" => \A e \in BagToSet(rc[t].sent) : ~e.delivered

\* C11: ErrorStatusCode gives each of the six known error codes a status of its
\* own, so FromErrorStatusCode gives back the code whose status it is handed,
\* in whatever order the map is visited; a code the lookup does not have gets
\* status 500 and a status the lookup does not have gets EINTERNAL.
C11_StableClassification ==
    /\ DOMAIN codes = {"ECONFLICT", "EINVALID", "ENOTFOUND", "ENOTIMPLEMENTED",
                       "EUNAUTHORIZED", "EINTERNAL"}
    /\ \A c1, c2 \in DOMAIN codes :
            c1 # c2 => ErrorStatusCode(c1) # ErrorStatusCode(c2)
    /\ lookup.code \in ErrorCodes \ DOMAIN codes => lookup.status = 500
    /\ lookup.pc = "done"
            => /\ lookup.code \in DOMAIN codes => lookup.result = lookup.code
               /\ (\A k \in DOMAIN codes : ErrorStatusCode(k) # lookup.status)
                    => lookup.result = "EINTERNAL"

\* The round trip of EINTERNAL ended after the range had visited other keys
\* first, ENOTIMPLEMENTED among them.
C11_Witness ==
    /\ lookup.pc = "range"
    /\ lookup.code = "EINTERNAL"
    /\ "ENOTIMPLEMENTED" \notin lookup.keys
    /\ "EINTERNAL" \in lookup.keys

\* The steps of refreshDialValue in the order the claim gives them.
StepOrder == <<"load", "aggregate", "update", "insert", "query", "iterate">>

StepNo(step) == CHOOSE i \in 1..6 : StepOrder[i] = step

InRefresh(t) == \E i \in 1..6 : StepOrder[i] = tx[t].pc

\* Transaction t has the dial row with the new value in its write set.
DialUpdated(t) ==
    \E r \in tx[t].dPut : r.id = tx[t].id /\ r.value = tx[t].newValue

\* Transaction t has a history sample of the dial in its write set.
SampleWritten(t) == \E r \in tx[t].vPut : r.dial_id = tx[t].id

\* A step of transaction t goes from one step of refreshDialValue to the next
\* one in the order, or out of refreshDialValue.
InOrder(t) ==
    /\ (InRefresh(t) /\ tx'[t].pc # tx[t].pc)
        => \/ tx'[t].pc = "returned"
           \/ /\ StepNo(tx[t].pc) < 6
              /\ tx'[t].pc = StepOrder[StepNo(tx[t].pc) + 1]
    /\ (~InRefresh(t) /\ tx'[t].pc # tx[t].pc)
        => tx'[t].pc \in {"open", "load", "returned", "committed", "rolledback"}

\* C12: the steps of a recompute come in the order load, aggregate, update of
\* the dial row, history sample, publish; no event is published before the dial
\* row is updated and the sample is written, no sample is written before the
\* dial row is updated, and a recompute that found no dial or no change has
\* reached none of the update, history and publish steps.
C12_StepOrder ==
    /\ [](\A t \in TxIds :
            /\ (tx[t].pc \in Active /\ rc[t].sent # NoEvents)
                => DialUpdated(t) /\ SampleWritten(t)
            /\ (tx[t].pc \in Active /\ SampleWritten(t)) => DialUpdated(t)
            /\ tx[t].pc \in {"query", "iterate"} => DialUpdated(t)
            /\ rc[t].outcome \in {"notfound", "nochange"}
                => /\ tx[t].pc \notin {"update", "insert", "query", "iterate"}
                   /\ tx[t].pc \in Active => NoWrites(t))
    /\ [][\A t \in TxIds : InOrder(t)]_vars

\* A recompute went through all the steps and has published to a member.
C12_Witness ==
    \E t \in TxIds :
        /\ tx[t].pc = "returned"
        /\ rc[t].outcome = "changed"
        /\ rc[t].sent # NoEvents
        /\ DialUpdated(t) /\ SampleWritten(t)

\* bucket is the start of the minute that holds timestamp.
IsBucketOf(bucket, timestamp) ==
    /\ bucket % TicksPerMinute = 0
    /\ bucket <= timestamp
    /\ timestamp < bucket + TicksPerMinute

\* Among rows there is the sample of the minute of the dial row's updated_at,
\* and it holds the dial row's value.
SampleAgrees(r, rows) ==
    \E h \in rows :
        /\ h.dial_id = r.id
        /\ IsBucketOf(h.timestamp, r.updated_at)
        /\ h.value = r.value

\* C13: the history sample written by a value-changing recompute has the value
\* written to the dial row and the minute of tx.now, which is also the dial
\* row's updated_at; so in the transaction after the history step, and in the
\* committed state after it, the sample of the minute of the dial's updated_at
\* exists and holds the dial's value.
C13_ValueHistoryAgree ==
    /\ \A t \in TxIds :
          (tx[t].pc \in Active /\ SampleWritten(t))
          => /\ \A h \in tx[t].vPut :
                    /\ h.dial_id = tx[t].id
                    /\ h.value = tx[t].newValue
                    /\ IsBucketOf(h.timestamp, tx[t].now)
             /\ \E r \in ViewDials(t) :
                    /\ r.id = tx[t].id
                    /\ r.value = tx[t].newValue
                    /\ r.updated_at = tx[t].now
                    /\ SampleAgrees(r, ViewValues(t))
    /\ \A r \in dials :
          (\E h \in dial_values : h.dial_id = r.id) => SampleAgrees(r, dial_values)

\* A recompute whose tx.now is not the start of a minute has committed a
\* changed value: updated_at is tx.now, the sample's timestamp is the start of
\* the minute.
C13_Witness ==
    \E t \in TxIds :
        /\ tx[t].pc = "committed"
        /\ rc[t].outcome = "changed"
        /\ tx[t].now % TicksPerMinute # 0
        /\ \E r \in dials :
              /\ r.id = tx[t].id
              /\ r.updated_at = tx[t].now
              /\ r.value = tx[t].newValue
              /\ SampleAgrees(r, dial_values)
              /\ \E h \in dial_values : h.dial_id = r.id /\ h.timestamp # r.updated_at

\* The users PublishEvent was called for by the recompute of transaction t.
Notified(t) == {e.user_id : e \in BagToSet(rc[t].sent)}

\* The users with a committed membership of dial d.
CommittedMembers(d) == {m.user_id : m \in MembersOf(dial_memberships, d)}

\* The users whose membership of its dial transaction t has written itself.
WrittenBy(t) == {m.user_id : m \in MembersOf(tx[t].mPut, tx[t].id)}

\* The members of its dial that transaction t can see: the committed ones it
\* has not deleted and the ones it has written.
OwnMembers(t) ==
    {u \in CommittedMembers(tx[t].id) : <<tx[t].id, u>> \notin tx[t].mDel}
        \cup WrittenBy(t)

\* C14: a value-changing recompute notifies exactly the users whose membership
\* of the dial its own transaction can see at the publish step: not a user
\* whose membership is being added by a concurrent transaction that has not
\* committed, and always a user whose membership the transaction wrote itself.
C14_Recipients ==
    \A t \in TxIds :
        /\ tx[t].pc \in Active => Notified(t) \subseteq OwnMembers(t)
        /\ (tx[t].pc = "returned" /\ ~tx[t].err /\ rc[t].outcome = "changed")
            => /\ Notified(t) = OwnMembers(t)
               /\ WrittenBy(t) \subseteq Notified(t)
               /\ \A o \in TxIds \ {t} :
                    tx[o].pc \in Active
                    => \A u \in WrittenBy(o) \ OwnMembers(t) : u \notin Notified(t)

\* A recompute has notified the member its transaction added, while a
\* concurrent transaction is adding another member and has not committed.
C14_Witness ==
    \E t \in TxIds, o \in TxIds :
        /\ t # o
        /\ tx[t].pc = "returned" /\ ~tx[t].err
        /\ rc[t].outcome = "changed"
        /\ WrittenBy(t) # {}
        /\ Notified(t) = WrittenBy(t)
        /\ tx[o].pc \in Active
        /\ tx[o].id = tx[t].id
        /\ WrittenBy(o) \ OwnMembers(t) # {}

\* The rows of dials other than d.
OtherDials(rows, d) == {r \in rows : r.id # d}

OtherSamples(rows, d) == {r \in rows : r.dial_id # d}

\* A step of refreshDialValue in transaction t leaves every membership row and
\* everything of the other dials as it is, in the committed tables and in what
\* the transaction has written.
FrameStep(t) ==
    InRefresh(t)
    => /\ dial_memberships' = dial_memberships
       /\ tx'[t].mPut = tx[t].mPut
       /\ tx'[t].mDel = tx[t].mDel
       /\ OtherDials(dials', tx[t].id) = OtherDials(dials, tx[t].id)
       /\ OtherDials(tx'[t].dPut, tx[t].id) = OtherDials(tx[t].dPut, tx[t].id)
       /\ tx'[t].dDel = tx[t].dDel
       /\ OtherSamples(dial_values', tx[t].id) = OtherSamples(dial_values, tx[t].id)
       /\ OtherSamples(tx'[t].vPut, tx[t].id) = OtherSamples(tx[t].vPut, tx[t].id)

\* C15: refreshDialValue, insertDialValue and publishDialEvent write no
\* membership row on any path, be it not found, unchanged, changed or error,
\* and change the value, updated_at and history of no dial but the one whose
\* id they are given.
C15_Frame ==
    /\ [][\A t \in TxIds : FrameStep(t)]_vars
    /\ [](\A t \in TxIds :
            (Refreshed(t) /\ tx[t].pc \in Active)
            => /\ OtherDials(tx[t].dPut, tx[t].id) = {}
               /\ OtherSamples(tx[t].vPut, tx[t].id) = {}
               /\ tx[t].dDel = {}
               /\ \A m \in tx[t].mPut : m.dial_id = tx[t].id
               /\ \A k \in tx[t].mDel : k[1] = tx[t].id
               /\ Cardinality(tx[t].mPut) + Cardinality(tx[t].mDel) <= 1)

\* A recompute changed the value of one dial while another dial has members, a
\* value of its own and history.
C15_Witness ==
    \E t \in TxIds, d \in Dials :
        /\ tx[t].pc = "returned"
        /\ rc[t].outcome = "changed"
        /\ d # tx[t].id
        /\ MembersOf(dial_memberships, d) # {}
        /\ OtherSamples(dial_values, tx[t].id) # {}
        /\ \E r \in ViewDials(t) : r.id = d /\ r.value # tx[t].newValue /\ r.value # 0
        /\ MembersOf(ViewMemberships(t), tx[t].id) # {}

\* The request body is a JSON object whose member "value", if it has one, is
\* a number.
BodyIsValid == http.body.syntax = "object" /\ (http.body.hasValue => http.body.type = "number")

\* The path ids that are integers, with the integers they stand for.
IntegerIDs == {<<<<"1">>, 1>>, <<<<"3">>, 3>>, <<<<"-", "1">>, 0 - 1>>}

PathIDIsValid == \E p \in IntegerIDs : p[1] = http.pathID

\* The responses the handler has written are one error response with the code.
WroteError(code, status) ==
    /\ Len(http.written) = 1
    /\ http.written[1].code = code
    /\ http.written[1].status = status
    /\ http.written[1].message # "{}"

\* C16: handleDialSetMembershipValue calls the service only for a body that
\* decoded and a path id that parsed; otherwise it responds with EINVALID, never
\* EINTERNAL, and does not call the service, so nothing in the store changes; an
\* error of the service is responded with its own code and no success body,
\* and only a call that succeeded gets the success body.
C16_HandlerValidation ==
    /\ [](/\ http.calls <= 1
          /\ http.calls = 1
                => /\ BodyIsValid /\ PathIDIsValid
                   /\ <<http.pathID, http.id>> \in IntegerIDs
                   /\ http.Value = IF http.body.hasValue THEN http.body.n ELSE 0
                   /\ tx[1].pc \in Active \cup {"committed", "rolledback"}
                   /\ tx[1].pc \notin {"idle", "open"}
                        => tx[1].id = http.id /\ rc[1].op = "set"
          /\ (http.pc = "responded" /\ ~(BodyIsValid /\ PathIDIsValid))
                => http.calls = 0 /\ WroteError("EINVALID", 400)
          /\ (http.pc = "responded" /\ BodyIsValid /\ PathIDIsValid)
                => /\ http.calls = 1
                   /\ tx[1].pc = "rolledback" /\ rc[1].failAt = "service"
                        => WroteError("ENOTFOUND", 404)
                   /\ tx[1].pc = "rolledback" /\ rc[1].failAt # "service"
                        => WroteError("EINTERNAL", 500)
                   /\ tx[1].pc = "committed"
                        => http.written = <<SuccessResponse>>
                   /\ tx[1].pc \in {"committed", "rolledback"})
    /\ [][http'.calls = 0 => UNCHANGED storageVars]_vars

\* A request whose body decodes and whose path id is no integer was answered
\* with EINVALID, after an earlier request had set a membership value.
C16_Witness ==
    /\ http.pc = "responded"
    /\ BodyIsValid
    /\ ~PathIDIsValid
    /\ http.calls = 0
    /\ WroteError("EINVALID", 400)
    /\ dial_memberships # {}

====
